---- MODULE Spec2Model ----
(***************************************************************************)
(* AIGenerator (backend/ai_generator.py): one generate_response invocation *)
(* against the Gemini provider, with the optional single tool round of     *)
(* _handle_tool_execution (Spec, FairSpec), and two such invocations       *)
(* running concurrently on one generator (ConcSpec).                       *)
(*                                                                         *)
(* Strings are sequences of tokens, so that concatenation is concatenation.*)
(* Python's None is NoneVal for atoms and Absent for optional sequences.   *)
(* The provider (client.models.generate_content) and the executor          *)
(* (tool_manager.execute_tool) are external: what they return, and whether *)
(* they raise, is chosen nondeterministically.                             *)
(***************************************************************************)
EXTENDS Integers, Sequences, FiniteSets, TLC

\* ---------------------------------------------------------------- bounds
\* most function calls in the first provider response
MaxCalls == 2
\* most function calls in the follow-up provider response
MaxFollowupCalls == 1
\* most tool definitions in a supplied catalog
MaxTools == 1
\* longest conversation history, in tokens
MaxHist == 1

\* ------------------------------------------------------ program constants
Temperature == 0
MaxOutputTokens == 800

\* ------------------------------------------------------------ value sets
NoneVal == "None"
Absent == [some |-> FALSE, val |-> <<>>]
Some(v) == [some |-> TRUE, val |-> v]

SeqsUpTo(S, n) == UNION {[1..k -> S] : k \in 0..n}

\* bool(x) of an Optional[str] / Optional[list]: None and the empty value are falsy
Truthy(x) == x.some /\ x.val # <<>>

ModelIds == {"gemini"}
Queries == {"q1", "q2"}
HistTokens == {"h1", "h2"}
Histories == {Absent} \cup {Some(h) : h \in SeqsUpTo(HistTokens, MaxHist)}
ToolNames == {"search", "outline"}
ArgVals == {NoneVal, "a1"}
Texts == {NoneVal, "t1"}
ToolResults == {"r1", "r2"}

\* tool definition dicts: well-formed ones, and ones lacking one key
ToolDefs ==
    {[name |-> n, description |-> "d", parameters |-> "p"] : n \in ToolNames}
      \cup {[description |-> "d", parameters |-> "p"],
            [name |-> "search", parameters |-> "p"],
            [name |-> "search", description |-> "d"]}
Catalogs == {Absent} \cup {Some(c) : c \in SeqsUpTo(ToolDefs, MaxTools)}

\* types.Part, one shape for the three kinds of part
TextPart(t) ==
    [kind |-> "text", name |-> NoneVal, text |-> t, args |-> NoneVal,
     response |-> [result |-> NoneVal]]
FunctionCallPart(fc) ==
    [kind |-> "function_call", name |-> fc.name, text |-> NoneVal,
     args |-> fc.args, response |-> [result |-> NoneVal]]

\* a provider response: .text, .function_calls and .candidates[0].content
FunctionCalls == [name : ToolNames, args : ArgVals]
MkResponse(t, fcs) ==
    [text |-> t, function_calls |-> fcs,
     content |-> [role |-> "model",
                  parts |-> (IF t = NoneVal THEN <<>> ELSE <<TextPart(t)>>)
                              \o [i \in 1..Len(fcs) |-> FunctionCallPart(fcs[i])]]]
Responses(n) == {MkResponse(t, fcs) : t \in Texts, fcs \in SeqsUpTo(FunctionCalls, n)}
NoResponse == [text |-> NoneVal, function_calls |-> <<>>,
               content |-> [role |-> "unset", parts |-> <<>>]]

NoConfig == [system_instruction |-> <<>>, temperature |-> -1,
             max_output_tokens |-> -1, tools |-> Absent]
NoReturn == "unset"

\* ----------------------------------------------------------------- state
VARIABLES
    pc,                   \* where the invocation stands
    model,                \* self.model
    query, conversation_history, tools, tool_manager,   \* the arguments
    config,               \* the GenerateContentConfig object
    contents,             \* the message list
    response,             \* the first provider response
    fn_idx,               \* the for loop's position in function_calls
    tool_response_parts,  \* the parts collected by the loop
    final_response,       \* the follow-up provider response
    calls,                \* what the provider has been sent, call by call
    executed,             \* what the executor has been asked, call by call
    retval,               \* the value generate_response returned
    error,                \* the exception that left generate_response
    peer                  \* the locals of a second, concurrent invocation

vars == <<pc, model, query, conversation_history, tools, tool_manager, config,
          contents, response, fn_idx, tool_response_parts, final_response,
          calls, executed, retval, error, peer>>

args == <<model, query, conversation_history, tools, tool_manager>>

\* -------------------------------------------------------- pure functions
SYSTEM_PROMPT == <<"SYSTEM_PROMPT">>
HistoryHeader == <<"\n\nPrevious conversation:\n">>

BuildSystemInstruction_NoHeader(history) ==
    IF Truthy(history) THEN SYSTEM_PROMPT \o history.val ELSE SYSTEM_PROMPT

BuildSystemInstruction(history) ==
    IF Truthy(history)
      THEN SYSTEM_PROMPT \o HistoryHeader \o history.val
      ELSE SYSTEM_PROMPT

\* tool_def["name"], tool_def["description"], tool_def["parameters"]
WellFormed(tool_def) == {"name", "description", "parameters"} \subseteq DOMAIN tool_def

_build_gemini_tools(tool_defs) ==
    << [function_declarations |->
          [i \in 1..Len(tool_defs) |->
             [name |-> tool_defs[i].name,
              description |-> tool_defs[i].description,
              parameters |-> tool_defs[i].parameters]]] >>

BuildConfig_IsNotNone(history, catalog) ==
    [system_instruction |-> BuildSystemInstruction(history),
     temperature |-> Temperature,
     max_output_tokens |-> MaxOutputTokens,
     tools |-> IF catalog.some THEN Some(_build_gemini_tools(catalog.val))
                               ELSE Absent]

BuildConfig(history, catalog) ==
    [system_instruction |-> BuildSystemInstruction(history),
     temperature |-> Temperature,
     max_output_tokens |-> MaxOutputTokens,
     tools |-> IF Truthy(catalog) THEN Some(_build_gemini_tools(catalog.val))
                                  ELSE Absent]

UserMessage(q) == [role |-> "user", parts |-> <<TextPart(q)>>]

GenerateContent(m, cts, cfg) == [model |-> m, contents |-> cts, config |-> cfg]

\* line 94: response.function_calls and tool_manager
NeedsToolRound_IgnoreManager(r, tm) == r.function_calls # <<>>

NeedsToolRound(r, tm) == r.function_calls # <<>> /\ tm

ReturnText_Blank(r) == NoneVal

ReturnText(r) == r.text

FunctionResponsePart_FirstName(fcs, i, v) ==
    [kind |-> "function_response", name |-> fcs[1].name, text |-> NoneVal,
     args |-> NoneVal, response |-> [result |-> v]]

FunctionResponsePart(fcs, i, v) ==
    [kind |-> "function_response", name |-> fcs[i].name, text |-> NoneVal,
     args |-> NoneVal, response |-> [result |-> v]]

DisableTools_FreshConfig(cfg) ==
    [system_instruction |-> SYSTEM_PROMPT,
     temperature |-> Temperature,
     max_output_tokens |-> MaxOutputTokens,
     tools |-> Absent]

DisableTools_Keep(cfg) == cfg

DisableTools(cfg) == [cfg EXCEPT !.tools = Absent]

\* what one invocation of generate_response owns: its arguments and the
\* objects its body creates (config line 73, contents line 84, the responses,
\* the loop's list line 117), with what it was seen to do
Frame(f_pc, f_query, f_history, f_tools, f_tool_manager) ==
    [pc |-> f_pc, query |-> f_query, conversation_history |-> f_history,
     tools |-> f_tools, tool_manager |-> f_tool_manager,
     config |-> NoConfig, contents |-> <<>>, response |-> NoResponse,
     fn_idx |-> 0, tool_response_parts |-> <<>>, final_response |-> NoResponse,
     calls |-> <<>>, executed |-> <<>>, retval |-> NoReturn, error |-> NoneVal]

\* no second invocation
NoPeer == Frame("ABSENT", NoneVal, Absent, Absent, FALSE)

\* --------------------------------------------------------------- actions
Init ==
    /\ pc = "INITIAL"
    /\ model \in ModelIds
    /\ query \in Queries
    /\ conversation_history \in Histories
    /\ tools \in Catalogs
    /\ tool_manager \in BOOLEAN
    /\ config = NoConfig
    /\ contents = <<>>
    /\ response = NoResponse
    /\ fn_idx = 0
    /\ tool_response_parts = <<>>
    /\ final_response = NoResponse
    /\ calls = <<>>
    /\ executed = <<>>
    /\ retval = NoReturn
    /\ error = NoneVal
    /\ peer = NoPeer

\* lines 65-91: the request is built and the first provider call is issued
BuildRequest ==
    /\ pc = "INITIAL"
    /\ Truthy(tools) => \A i \in 1..Len(tools.val) : WellFormed(tools.val[i])
    /\ config' = BuildConfig(conversation_history, tools)
    /\ contents' = <<UserMessage(query)>>
    /\ calls' = Append(calls, GenerateContent(model, contents', config'))
    /\ pc' = "AWAITING_MODEL"
    /\ UNCHANGED <<peer, args, response, fn_idx, tool_response_parts, final_response,
                   executed, retval, error>>

BuildRequestFails_DropsMalformed ==
    /\ pc = "INITIAL"
    /\ Truthy(tools)
    /\ \E i \in 1..Len(tools.val) : ~WellFormed(tools.val[i])
    /\ config' = BuildConfig(conversation_history,
                             Some(SelectSeq(tools.val, WellFormed)))
    /\ contents' = <<UserMessage(query)>>
    /\ calls' = Append(calls, GenerateContent(model, contents', config'))
    /\ pc' = "AWAITING_MODEL"
    /\ UNCHANGED <<peer, args, response, fn_idx, tool_response_parts, final_response,
                   executed, retval, error>>

\* lines 40-45: a tool definition lacks a key, the KeyError leaves generate_response
BuildRequestFails ==
    /\ pc = "INITIAL"
    /\ Truthy(tools)
    /\ \E i \in 1..Len(tools.val) : ~WellFormed(tools.val[i])
    /\ pc' = "FAILED"
    /\ error' = "KeyError"
    /\ UNCHANGED <<peer, args, config, contents, response, fn_idx, tool_response_parts,
                   final_response, calls, executed, retval>>

\* lines 87-94: the first provider call returns, and the branch is taken
FirstCallReturns ==
    /\ pc = "AWAITING_MODEL"
    /\ \E r \in Responses(MaxCalls) :
         /\ response' = r
         /\ pc' = IF NeedsToolRound(r, tool_manager) THEN "TOOL_ROUND" ELSE "DIRECT_ANSWER"
    /\ UNCHANGED <<peer, args, config, contents, fn_idx, tool_response_parts,
                   final_response, calls, executed, retval, error>>

FirstCallFails_Retry ==
    /\ pc = "AWAITING_MODEL"
    /\ IF Len(calls) < 2
         THEN /\ calls' = Append(calls, GenerateContent(model, contents, config))
              /\ UNCHANGED <<pc, error>>
         ELSE /\ pc' = "FAILED"
              /\ error' = "TransportFailure"
              /\ UNCHANGED calls
    /\ UNCHANGED <<peer, args, config, contents, response, fn_idx, tool_response_parts,
                   final_response, executed, retval>>

\* lines 87-91: the first provider call raises
FirstCallFails ==
    /\ pc = "AWAITING_MODEL"
    /\ pc' = "FAILED"
    /\ error' = "TransportFailure"
    /\ UNCHANGED <<peer, args, config, contents, response, fn_idx, tool_response_parts,
                   final_response, calls, executed, retval>>

\* line 98
DirectAnswer ==
    /\ pc = "DIRECT_ANSWER"
    /\ retval' = ReturnText(response)
    /\ pc' = "DONE"
    /\ UNCHANGED <<peer, args, config, contents, response, fn_idx, tool_response_parts,
                   final_response, calls, executed, error>>

AppendModelTurn_Skip ==
    /\ pc = "TOOL_ROUND"
    /\ tool_response_parts' = <<>>
    /\ fn_idx' = 1
    /\ pc' = "EXECUTING_TOOLS"
    /\ UNCHANGED <<peer, args, config, contents, response, final_response, calls,
                   executed, retval, error>>

\* lines 113-117: the model's turn joins the history, the loop starts
AppendModelTurn ==
    /\ pc = "TOOL_ROUND"
    /\ contents' = Append(contents, response.content)
    /\ tool_response_parts' = <<>>
    /\ fn_idx' = 1
    /\ pc' = "EXECUTING_TOOLS"
    /\ UNCHANGED <<peer, args, config, response, final_response, calls, executed,
                   retval, error>>

\* lines 118-128: one iteration, the executor returns v
ExecuteToolReturns ==
    /\ pc = "EXECUTING_TOOLS"
    /\ fn_idx <= Len(response.function_calls)
    /\ response.function_calls[fn_idx].args # NoneVal
    /\ \E v \in ToolResults :
         /\ executed' = Append(executed,
                [name |-> response.function_calls[fn_idx].name,
                 args |-> response.function_calls[fn_idx].args,
                 outcome |-> v])
         /\ tool_response_parts' = Append(tool_response_parts,
                FunctionResponsePart(response.function_calls, fn_idx, v))
    /\ fn_idx' = fn_idx + 1
    /\ UNCHANGED <<peer, pc, args, config, contents, response, final_response, calls,
                   retval, error>>

\* lines 119-122: the executor raises; nothing catches it
ExecuteToolRaises ==
    /\ pc = "EXECUTING_TOOLS"
    /\ fn_idx <= Len(response.function_calls)
    /\ response.function_calls[fn_idx].args # NoneVal
    /\ executed' = Append(executed,
           [name |-> response.function_calls[fn_idx].name,
            args |-> response.function_calls[fn_idx].args,
            outcome |-> "raised"])
    /\ pc' = "FAILED"
    /\ error' = "ToolExecutionFailure"
    /\ UNCHANGED <<peer, args, config, contents, response, fn_idx, tool_response_parts,
                   final_response, calls, retval>>

ExecuteToolMissingArgs_EmptyKwargs ==
    /\ pc = "EXECUTING_TOOLS"
    /\ fn_idx <= Len(response.function_calls)
    /\ response.function_calls[fn_idx].args = NoneVal
    /\ \E v \in ToolResults :
         /\ executed' = Append(executed,
                [name |-> response.function_calls[fn_idx].name,
                 args |-> NoneVal,
                 outcome |-> v])
         /\ tool_response_parts' = Append(tool_response_parts,
                FunctionResponsePart(response.function_calls, fn_idx, v))
    /\ fn_idx' = fn_idx + 1
    /\ UNCHANGED <<peer, pc, args, config, contents, response, final_response, calls,
                   retval, error>>

\* line 121: **fn_call.args with args None is a TypeError, before the executor runs
ExecuteToolMissingArgs ==
    /\ pc = "EXECUTING_TOOLS"
    /\ fn_idx <= Len(response.function_calls)
    /\ response.function_calls[fn_idx].args = NoneVal
    /\ pc' = "FAILED"
    /\ error' = "TypeError"
    /\ UNCHANGED <<peer, args, config, contents, response, fn_idx, tool_response_parts,
                   final_response, calls, executed, retval>>

IssueFollowup_OffByOne ==
    /\ pc = "EXECUTING_TOOLS"
    /\ fn_idx > Len(response.function_calls) + 1
    /\ contents' = Append(contents, [role |-> "user", parts |-> tool_response_parts])
    /\ config' = DisableTools(config)
    /\ calls' = Append(calls, GenerateContent(model, contents', config'))
    /\ pc' = "AWAITING_FOLLOWUP"
    /\ UNCHANGED <<peer, args, response, fn_idx, tool_response_parts, final_response,
                   executed, retval, error>>

\* lines 130-141: the results turn joins the history, tools are removed from
\* the config, the follow-up provider call is issued
IssueFollowup ==
    /\ pc = "EXECUTING_TOOLS"
    /\ fn_idx > Len(response.function_calls)
    /\ contents' = Append(contents, [role |-> "user", parts |-> tool_response_parts])
    /\ config' = DisableTools(config)
    /\ calls' = Append(calls, GenerateContent(model, contents', config'))
    /\ pc' = "AWAITING_FOLLOWUP"
    /\ UNCHANGED <<peer, args, response, fn_idx, tool_response_parts, final_response,
                   executed, retval, error>>

FollowupReturns_ReturnsFirstText ==
    /\ pc = "AWAITING_FOLLOWUP"
    /\ \E r \in Responses(MaxFollowupCalls) :
         /\ final_response' = r
         /\ retval' = ReturnText(response)
    /\ pc' = "DONE"
    /\ UNCHANGED <<peer, args, config, contents, response, fn_idx, tool_response_parts,
                   calls, executed, error>>

\* lines 137-142: the follow-up call returns
FollowupReturns ==
    /\ pc = "AWAITING_FOLLOWUP"
    /\ \E r \in Responses(MaxFollowupCalls) :
         /\ final_response' = r
         /\ retval' = ReturnText(r)
    /\ pc' = "DONE"
    /\ UNCHANGED <<peer, args, config, contents, response, fn_idx, tool_response_parts,
                   calls, executed, error>>

\* lines 137-141: the follow-up call raises
FollowupFails ==
    /\ pc = "AWAITING_FOLLOWUP"
    /\ pc' = "FAILED"
    /\ error' = "TransportFailure"
    /\ UNCHANGED <<peer, args, config, contents, response, fn_idx, tool_response_parts,
                   final_response, calls, executed, retval>>

Next ==
    \/ BuildRequest
    \/ BuildRequestFails
    \/ FirstCallReturns
    \/ FirstCallFails
    \/ DirectAnswer
    \/ AppendModelTurn
    \/ ExecuteToolReturns
    \/ ExecuteToolRaises
    \/ ExecuteToolMissingArgs
    \/ IssueFollowup
    \/ FollowupReturns
    \/ FollowupFails

Spec == Init /\ [][Next]_vars

\* ------------------------------------------ two concurrent invocations
\* the running invocation's locals, as a frame
CurrentFrame ==
    [pc |-> pc, query |-> query, conversation_history |-> conversation_history,
     tools |-> tools, tool_manager |-> tool_manager,
     config |-> config, contents |-> contents, response |-> response,
     fn_idx |-> fn_idx, tool_response_parts |-> tool_response_parts,
     final_response |-> final_response,
     calls |-> calls, executed |-> executed, retval |-> retval, error |-> error]

ContextSwitch_SharedConfig ==
    /\ peer # NoPeer
    /\ peer' = CurrentFrame
    /\ pc' = peer.pc
    /\ query' = peer.query
    /\ conversation_history' = peer.conversation_history
    /\ tools' = peer.tools
    /\ tool_manager' = peer.tool_manager
    /\ contents' = peer.contents
    /\ response' = peer.response
    /\ fn_idx' = peer.fn_idx
    /\ tool_response_parts' = peer.tool_response_parts
    /\ final_response' = peer.final_response
    /\ calls' = peer.calls
    /\ executed' = peer.executed
    /\ retval' = peer.retval
    /\ error' = peer.error
    /\ UNCHANGED <<model, config>>

\* the other thread is scheduled: every local of generate_response and of
\* _handle_tool_execution belongs to the invocation (lines 48-51, 66-87, 100,
\* 117-119, 137); self.model (line 35) is the generator's
ContextSwitch ==
    /\ peer # NoPeer
    /\ peer' = CurrentFrame
    /\ pc' = peer.pc
    /\ query' = peer.query
    /\ conversation_history' = peer.conversation_history
    /\ tools' = peer.tools
    /\ tool_manager' = peer.tool_manager
    /\ config' = peer.config
    /\ contents' = peer.contents
    /\ response' = peer.response
    /\ fn_idx' = peer.fn_idx
    /\ tool_response_parts' = peer.tool_response_parts
    /\ final_response' = peer.final_response
    /\ calls' = peer.calls
    /\ executed' = peer.executed
    /\ retval' = peer.retval
    /\ error' = peer.error
    /\ UNCHANGED model

\* the two invocations followed: different queries and histories, catalogs of
\* their own, with and without an executor
ConcPeers ==
    {Frame("INITIAL", "q2", Some(<<"h2">>), t, tm) :
       t \in {Absent,
              Some(<<[name |-> "outline", description |-> "d", parameters |-> "p"]>>),
              Some(<<[name |-> "outline", description |-> "d"]>>)},
       tm \in {TRUE}}

ConcInit ==
    /\ pc = "INITIAL"
    /\ model \in ModelIds
    /\ query = "q1"
    /\ conversation_history \in {Absent, Some(<<"h1">>)}
    /\ tools = Some(<<[name |-> "search", description |-> "d", parameters |-> "p"]>>)
    /\ tool_manager \in BOOLEAN
    /\ config = NoConfig
    /\ contents = <<>>
    /\ response = NoResponse
    /\ fn_idx = 0
    /\ tool_response_parts = <<>>
    /\ final_response = NoResponse
    /\ calls = <<>>
    /\ executed = <<>>
    /\ retval = NoReturn
    /\ error = NoneVal
    /\ peer \in ConcPeers

\* what the provider and the executor answer while two invocations are followed
ConcResponses ==
    {MkResponse("t1", <<>>),
     MkResponse(NoneVal, <<[name |-> "search", args |-> "a1"]>>),
     MkResponse(NoneVal, <<[name |-> "outline", args |-> "a1"],
                           [name |-> "search", args |-> "a1"]>>),
     MkResponse("t1", <<[name |-> "outline", args |-> NoneVal]>>)}

ConcEnv ==
    /\ response' \in ConcResponses \cup {NoResponse}
    /\ final_response' \in {MkResponse("t1", <<>>), NoResponse}

ConcNext ==
    \/ BuildRequest /\ ConcEnv
    \/ BuildRequestFails /\ ConcEnv
    \/ FirstCallReturns /\ ConcEnv
    \/ FirstCallFails /\ ConcEnv
    \/ DirectAnswer /\ ConcEnv
    \/ AppendModelTurn /\ ConcEnv
    \/ ExecuteToolReturns /\ ConcEnv
    \/ ExecuteToolRaises /\ ConcEnv
    \/ ExecuteToolMissingArgs /\ ConcEnv
    \/ IssueFollowup /\ ConcEnv
    \/ FollowupReturns /\ ConcEnv
    \/ FollowupFails /\ ConcEnv
    \/ ContextSwitch

ConcSpec ==
    /\ ConcInit
    /\ [][ConcNext]_vars

\* the interpreter keeps running the invocation, and every provider call and
\* every tool execution returns or raises
\* (the query and the history only feed the request that is built, never the
\* control flow, so one of each is followed)
FairInit == Init /\ query = "q1" /\ conversation_history = Some(<<"h1">>)
FairSpec == FairInit /\ [][Next]_vars /\ WF_vars(Next)

\* ------------------------------------------------------------ properties
Terminated == pc \in {"DONE", "FAILED"}
FirstReturned == response # NoResponse
RequestsToolRound == response.function_calls # <<>> /\ tool_manager
AllArgsPresent ==
    \A i \in 1..Len(response.function_calls) : response.function_calls[i].args # NoneVal
ExecutorRaised == \E i \in 1..Len(executed) : executed[i].outcome = "raised"
ToolsDeclared == Len(calls) >= 1 /\ calls[1].config.tools.some
ResultsAppended(cts) == \E j \in 2..Len(cts) : cts[j].role = "user"

\* C1: every invocation whose first response carries tool-call requests, with
\* an executor supplied, ends with exactly two provider calls issued, the
\* second with tools = None.  Stated for invocations that declared tools and
\* whose requests all carry arguments (a request without arguments is the case
\* of C13), so that what refutes it is the executor raising.
C1_TwoCallsSecondWithoutTools ==
    (Terminated /\ RequestsToolRound /\ ToolsDeclared /\ AllArgsPresent)
      => (Len(calls) = 2 /\ ~calls[2].config.tools.some)

\* C2 as claimed: with no catalog supplied, every invocation that returns has
\* issued exactly one provider call and returns that call's text, whatever the
\* response holds and whether or not an executor is supplied.
C2_NoCatalogOneCall ==
    (~tools.some /\ pc = "DONE")
      => (Len(calls) = 1 /\ retval = response.text)

\* C2 as amended: with no catalog supplied, and the first response without
\* tool-call requests or no executor supplied, the invocation ends with exactly
\* one provider call issued, and when it returns it returns that call's text.
C2_NoCatalogNoToolRoundOneCall ==
    (~tools.some /\ Terminated /\ ~RequestsToolRound)
      => (Len(calls) = 1 /\ (pc = "DONE" => retval = response.text))

C2_Witness ==
    /\ ~tools.some /\ tool_manager /\ pc = "DONE"
    /\ response.function_calls = <<>> /\ retval = "t1"

\* C3: when the executor raises for one request, the remaining requests are
\* still executed, the follow-up call is issued and generate returns.  Stated
\* for invocations that declared tools.
C3_ToolFailureContained ==
    (Terminated /\ ToolsDeclared /\ ExecutorRaised)
      => (/\ pc = "DONE"
          /\ Len(calls) = 2
          /\ Len(executed) = Len(response.function_calls))

\* C4: the results turn of the follow-up call has one function-response part
\* per request, the i-th tagged with the i-th request's name and carrying the
\* value the executor returned for the i-th request.
C4_OrderPreserved ==
    Len(calls) = 2 =>
      LET cts == calls[2].contents
          parts == cts[Len(cts)].parts
          fcs == response.function_calls
      IN  /\ Len(parts) = Len(fcs)
          /\ Len(executed) = Len(fcs)
          /\ \A i \in 1..Len(fcs) :
               /\ parts[i].kind = "function_response"
               /\ parts[i].name = fcs[i].name
               /\ parts[i].response = [result |-> executed[i].outcome]

C4_Witness ==
    /\ Len(calls) = 2
    /\ Len(response.function_calls) = 2
    /\ response.function_calls[1].name # response.function_calls[2].name
    /\ executed[1].outcome # executed[2].outcome

\* C5: at most two provider calls are ever issued, no call but the first has
\* tools attached, and a call whose history holds tool results has none.
C5_ToolsOnFirstCallOnly ==
    /\ Len(calls) <= 2
    /\ \A i \in 1..Len(calls) :
         (i > 1 \/ ResultsAppended(calls[i].contents)) => ~calls[i].config.tools.some

C5_Witness ==
    /\ Len(calls) = 2
    /\ calls[1].config.tools.some
    /\ ResultsAppended(calls[2].contents)

\* C6: generate ends without an answer only on a provider failure or a
\* malformed tool definition, whatever the executor does.  Stated for
\* invocations that declared tools and whose requests all carry arguments (C13
\* is the other case).
C6_OnlyTransportOrConfigurationFailures ==
    (pc = "FAILED" /\ ToolsDeclared /\ AllArgsPresent)
      => error \in {"TransportFailure", "KeyError"}

\* C7: a first response with tool-call requests and no executor supplied is
\* answered directly: no second provider call, no tool invoked, no error, and
\* the first response's text (None included) is what is returned.
C7_NoExecutorDirectAnswer ==
    (FirstReturned /\ response.function_calls # <<>> /\ ~tool_manager)
      => (/\ pc \in {"DIRECT_ANSWER", "DONE"}
          /\ Len(calls) = 1
          /\ executed = <<>>
          /\ error = NoneVal
          /\ pc = "DONE" => retval = response.text)

C7_Witness ==
    /\ pc = "DONE" /\ ~tool_manager
    /\ Len(response.function_calls) = 2
    /\ response.text = NoneVal /\ retval = NoneVal

\* where a provider failure leaves the invocation: nothing returned, the
\* failed call the last thing done
C8_FailureState ==
    error = "TransportFailure" =>
      /\ pc = "FAILED"
      /\ retval = NoReturn
      /\ final_response = NoResponse
      /\ ~FirstReturned => (Len(calls) = 1 /\ executed = <<>>)
      /\ FirstReturned => (Len(calls) = 2 /\ ~ExecutorRaised)

\* C8: a provider failure leaves generate as its outcome: nothing is returned,
\* the failed call is not retried (one call attempt and no tool execution when
\* it is the first call, two attempts when it is the second), and nothing
\* happens after a failure.
C8_ProviderFailurePropagates ==
    /\ []C8_FailureState
    /\ [][pc = "FAILED" => UNCHANGED vars]_vars

C8_Witness ==
    /\ error = "TransportFailure" /\ FirstReturned
    /\ Len(calls) = 2 /\ Len(executed) = 2

\* C9 as claimed: the system instruction sent is the base instruction when
\* history is absent, and the base instruction followed by the 'Previous
\* conversation' section holding the history for every history that is present.
C9_SystemInstructionOfHistory ==
    \A i \in 1..Len(calls) :
      calls[i].config.system_instruction =
        IF conversation_history.some
          THEN SYSTEM_PROMPT \o HistoryHeader \o conversation_history.val
          ELSE SYSTEM_PROMPT

\* C9 as amended: the section is added for every non-empty history; an absent
\* or empty history gives the base instruction unchanged.
C9_SystemInstructionOfNonEmptyHistory ==
    \A i \in 1..Len(calls) :
      calls[i].config.system_instruction =
        IF conversation_history.some /\ Len(conversation_history.val) > 0
          THEN SYSTEM_PROMPT \o HistoryHeader \o conversation_history.val
          ELSE SYSTEM_PROMPT

C9_Witness ==
    /\ Len(calls) = 2
    /\ conversation_history = Some(<<"h2">>)
    /\ calls[2].config.system_instruction = <<"SYSTEM_PROMPT", "\n\nPrevious conversation:\n", "h2">>

\* C10: the first provider call is sent exactly the user query turn; the
\* follow-up call is sent exactly three turns: the query turn, the model's
\* first-response turn as received, and one user turn of function responses.
C10_HistoryShape ==
    /\ Len(calls) >= 1 =>
         calls[1].contents = <<[role |-> "user", parts |-> <<TextPart(query)>>]>>
    /\ Len(calls) >= 2 =>
         LET cts == calls[2].contents
         IN  /\ Len(cts) = 3
             /\ cts[1] = calls[1].contents[1]
             /\ cts[2] = response.content
             /\ cts[3].role = "user"
             /\ Len(cts[3].parts) = Len(response.function_calls)
             /\ \A k \in 1..Len(cts[3].parts) : cts[3].parts[k].kind = "function_response"

C10_Witness ==
    /\ Len(calls) = 2
    /\ Len(calls[2].contents) = 3
    /\ Len(calls[2].contents[2].parts) = 3
    /\ Len(calls[2].contents[3].parts) = 2

\* C11: in the tool round the executor is invoked once per tool-call request,
\* in the order the model emitted them, and never outside the tool round.
\* Stated for invocations that declared tools and whose requests all carry
\* arguments (C13 is the other case).
C11_ExecutorOncePerRequestInOrder ==
    /\ (FirstReturned /\ ~RequestsToolRound) => executed = <<>>
    /\ (Terminated /\ RequestsToolRound /\ ToolsDeclared /\ AllArgsPresent)
         => /\ Len(executed) = Len(response.function_calls)
            /\ \A i \in 1..Len(executed) :
                 /\ executed[i].name = response.function_calls[i].name
                 /\ executed[i].args = response.function_calls[i].args

\* C12: once the follow-up response has arrived generate is done and what it
\* returned is that response's text; tool-call requests in the follow-up
\* response are not executed and no third provider call is issued.
C12_ReturnsFollowupText ==
    final_response # NoResponse =>
      /\ pc = "DONE"
      /\ retval = final_response.text
      /\ Len(calls) = 2
      /\ Len(executed) = Len(response.function_calls)
      /\ error = NoneVal

C12_Witness ==
    /\ pc = "DONE"
    /\ final_response.function_calls # <<>>
    /\ final_response.text = "t1" /\ response.text = NoneVal
    /\ retval = "t1"

\* the position of the first request of the first response that has no arguments
FirstMissingArgs ==
    CHOOSE i \in 1..Len(response.function_calls) :
      /\ response.function_calls[i].args = NoneVal
      /\ \A j \in 1..(i - 1) : response.function_calls[j].args # NoneVal

\* C13: in a tool round whose requests include one without arguments, no
\* result is ever recorded for that request, no follow-up call is issued and
\* nothing is returned; once the loop reaches that request the invocation
\* fails there (a TypeError at the executor invocation), and nothing recovers it.
C13_MissingArgsPropagates ==
    (RequestsToolRound /\ ~AllArgsPresent) =>
      /\ Len(tool_response_parts) < FirstMissingArgs
      /\ Len(executed) < FirstMissingArgs
      /\ Len(calls) = 1
      /\ retval = NoReturn
      /\ pc \in {"TOOL_ROUND", "EXECUTING_TOOLS", "FAILED"}
      /\ (Terminated /\ ~ExecutorRaised) =>
           /\ error = "TypeError"
           /\ fn_idx = FirstMissingArgs
           /\ Len(executed) = FirstMissingArgs - 1
      /\ error = "TypeError" => (pc = "FAILED" /\ fn_idx = FirstMissingArgs)

C13_Witness ==
    /\ error = "TypeError" /\ pc = "FAILED"
    /\ Len(response.function_calls) = 2
    /\ response.function_calls[2].args = NoneVal
    /\ Len(executed) = 1 /\ Len(calls) = 1

\* a tool definition of the supplied catalog lacks name, description or parameters
CatalogMalformed ==
    /\ tools.some
    /\ \E i \in 1..Len(tools.val) :
         ~({"name", "description", "parameters"} \subseteq DOMAIN tools.val[i])

\* C14: with a malformed tool definition in the supplied catalog, generate
\* fails with that configuration failure as its first step: no provider call
\* is ever issued, no tool is executed, nothing is returned, and no call is
\* ever sent with the definition dropped or completed.
C14_MalformedCatalogFailsFirst ==
    CatalogMalformed =>
      /\ pc \in {"INITIAL", "FAILED"}
      /\ pc = "FAILED" => error = "KeyError"
      /\ calls = <<>>
      /\ executed = <<>>
      /\ retval = NoReturn
      /\ response = NoResponse

C14_Witness ==
    /\ pc = "FAILED" /\ error = "KeyError"
    /\ tools = Some(<<[name |-> "search", parameters |-> "p"]>>)
    /\ calls = <<>>

\* C16: the first provider call carries tool declarations exactly when the
\* supplied catalog is non-empty, executor or no executor; an empty catalog
\* sends none, as an absent one; the declarations sent are the catalog's
\* definitions, one for one, in a single Tool.
C16_ToolsAttachedIffCatalogNonEmpty ==
    Len(calls) >= 1 =>
      LET sent == calls[1].config.tools
      IN  /\ sent.some <=> (tools.some /\ Len(tools.val) > 0)
          /\ sent.some =>
               /\ Len(sent.val) = 1
               /\ Len(sent.val[1].function_declarations) = Len(tools.val)
               /\ \A i \in 1..Len(tools.val) :
                    /\ sent.val[1].function_declarations[i].name = tools.val[i].name
                    /\ sent.val[1].function_declarations[i].description
                         = tools.val[i].description
                    /\ sent.val[1].function_declarations[i].parameters
                         = tools.val[i].parameters

C16_Witness ==
    /\ ~tool_manager
    /\ pc = "DONE"
    /\ Len(calls) = 1
    /\ calls[1].config.tools.some
    /\ calls[1].config.tools.val[1].function_declarations[1].name = "outline"

\* C17: the follow-up call differs from the first call's request in the tools
\* field only: same model id, same system instruction (history section
\* included), temperature 0, max_output_tokens 800.
C17_FollowupConfigSameButTools ==
    Len(calls) = 2 =>
      /\ calls[2].model = calls[1].model
      /\ calls[2].config.system_instruction = calls[1].config.system_instruction
      /\ calls[2].config.temperature = 0 /\ calls[1].config.temperature = 0
      /\ calls[2].config.max_output_tokens = 800
      /\ calls[1].config.max_output_tokens = 800
      /\ ~calls[2].config.tools.some
      /\ [calls[2].config EXCEPT !.tools = calls[1].config.tools] = calls[1].config

C17_Witness ==
    /\ Len(calls) = 2
    /\ calls[1].config.tools.some
    /\ Len(calls[2].config.system_instruction) = 3

\* the moves between the orchestrator's states, a propagated failure included
StateOrder ==
    {<<"INITIAL", "AWAITING_MODEL">>, <<"INITIAL", "FAILED">>,
     <<"AWAITING_MODEL", "DIRECT_ANSWER">>, <<"AWAITING_MODEL", "TOOL_ROUND">>,
     <<"AWAITING_MODEL", "FAILED">>,
     <<"DIRECT_ANSWER", "DONE">>,
     <<"TOOL_ROUND", "EXECUTING_TOOLS">>,
     <<"EXECUTING_TOOLS", "AWAITING_FOLLOWUP">>, <<"EXECUTING_TOOLS", "FAILED">>,
     <<"AWAITING_FOLLOWUP", "DONE">>, <<"AWAITING_FOLLOWUP", "FAILED">>}

\* a step moves to a later state, or is one more iteration of the tool loop
C18_StepInOrder ==
    \/ <<pc, pc'>> \in StateOrder
    \/ /\ pc = "EXECUTING_TOOLS" /\ pc' = "EXECUTING_TOOLS"
       /\ fn_idx' = fn_idx + 1
       /\ fn_idx <= Len(response.function_calls)

\* C18: every invocation eventually returns an answer or ends in a propagated
\* failure, and moves through the states in the order INITIAL, AWAITING_MODEL,
\* DIRECT_ANSWER or TOOL_ROUND, EXECUTING_TOOLS, AWAITING_FOLLOWUP, never back.
C18_TerminatesInOrder ==
    /\ <>Terminated
    /\ [][C18_StepInOrder]_vars

C18_Witness ==
    /\ pc = "DONE"
    /\ Len(calls) = 2
    /\ Len(executed) = 2
    /\ fn_idx = 3

\* the system instruction an invocation's own history gives
OwnInstruction(F) ==
    IF F.conversation_history.some /\ Len(F.conversation_history.val) > 0
      THEN SYSTEM_PROMPT \o HistoryHeader \o F.conversation_history.val
      ELSE SYSTEM_PROMPT

\* the results turn an invocation's own requests and tool results give
OwnResultsTurn(F) ==
    [role |-> "user",
     parts |-> [i \in 1..Len(F.response.function_calls) |->
                  [kind |-> "function_response",
                   name |-> F.response.function_calls[i].name,
                   text |-> NoneVal, args |-> NoneVal,
                   response |-> [result |-> F.executed[i].outcome]]]]

\* the invocation with frame F holds, and has sent, nothing but its own
IsolatedFrame(F) ==
    /\ F.pc \notin {"INITIAL", "FAILED"} =>
         /\ F.config.system_instruction = OwnInstruction(F)
         /\ F.config.tools.some
              <=> (F.tools.some /\ Len(F.tools.val) > 0 /\ Len(F.calls) < 2)
         /\ F.contents[1] = [role |-> "user", parts |-> <<TextPart(F.query)>>]
    /\ Len(F.calls) >= 1 =>
         /\ F.calls[1].contents = <<[role |-> "user", parts |-> <<TextPart(F.query)>>]>>
         /\ F.calls[1].config.system_instruction = OwnInstruction(F)
         /\ F.calls[1].config.tools.some <=> (F.tools.some /\ Len(F.tools.val) > 0)
         /\ F.calls[1].config.tools.some =>
              F.calls[1].config.tools.val[1].function_declarations[1].name
                = F.tools.val[1].name
    /\ Len(F.calls) >= 2 =>
         /\ F.calls[2].contents
              = <<[role |-> "user", parts |-> <<TextPart(F.query)>>],
                  F.response.content, OwnResultsTurn(F)>>
         /\ F.calls[2].config.system_instruction = OwnInstruction(F)
         /\ ~F.calls[2].config.tools.some

\* C15: whatever the interleaving of two invocations on one generator, each
\* one's message history and config are its own: what it sends holds only its
\* own query, model turn and tool results, under its own system instruction,
\* and its tools stay attached until it disables them itself.
C15_InvocationsIsolated ==
    /\ IsolatedFrame(CurrentFrame)
    /\ IsolatedFrame(peer)

\* one invocation has disabled its tools for its follow-up while the first
\* call of the other, issued before that, is still in flight with tools attached
C15_Witness ==
    /\ pc = "AWAITING_FOLLOWUP" /\ ~config.tools.some
    /\ Len(calls) = 2 /\ Len(executed) = 2
    /\ peer.pc = "AWAITING_MODEL" /\ peer.config.tools.some
    /\ peer.query # query
    /\ Len(peer.calls) = 1

====
